---- MODULE Spec2Model ----
(***************************************************************************)
(* Model of the MOT motion-file importer:                                  *)
(*   src/mot/importer/mot.py           MOT, MOT_Record, MOT_Value          *)
(*   src/mot/importer/mot_importer.py  main (up to its first record use)   *)
(*                                                                         *)
(* The byte buffer is modelled by what the readers return from it: the     *)
(* file header fields, the 12-byte record slots at records_offset + 12*i   *)
(* and, for each slot, the payload found at slot position + stored offset. *)
(* Floats are IEEE-754 doubles, computed as Python computes them;          *)
(* integers read from the file are integers.                               *)
(* A Python exception is the value of exc and ends the run (nothing in     *)
(* the code catches one).                                                  *)
(***************************************************************************)
EXTENDS Integers, Sequences, FiniteSets, TLC

(***************************************************************************)
(* Bounds of the model.                                                    *)
(***************************************************************************)
\* largest value_count of a record
MaxCount == 2
\* largest frame index stored in a control point
MaxIndex == 2
\* largest frame_count in the file header
MaxFrameCount == 4
\* largest quantum code of the stepped kinds 2 and 3
MaxCode == 2
\* largest records_count of a file with several records
MaxRecords == 2
\* largest nibble of a raw bone reference
MaxNibble == 1
\* largest entry of a translation table
MaxEntry == 2
\* length of a translation table
TableLen == 4
\* the frames a sampling loop may append before the model stops following it
FrameCap == MaxIndex + MaxFrameCount + 3

(***************************************************************************)
(* Python's float arithmetic: IEEE-754 binary64, round to nearest, ties to *)
(* even.  A float is <<s, m, e>> and stands for s * m * 2^e: s is its sign *)
(* (-1, 0 or 1), m a natural number written as its digits in base 2^15,    *)
(* lowest digit first (<<>> is 0), and e an integer.  m is odd, so that    *)
(* each number has one form; 0.0 is <<0, <<>>, 0>> (0.0 == -0.0 in         *)
(* Python).  Every operation computes the exact result and rounds it to 53 *)
(* significant bits.  The values of this model lie far inside the exponent *)
(* range, so overflow and subnormal numbers are not modelled.              *)
(***************************************************************************)
\* the base of the digits of a natural number
LimbBits == 15
Limb == 2 ^ LimbBits
\* the significant bits of a float
Precision == 53

\* digit k of a, 0 beyond its length
NLimb(a, k) == IF k <= Len(a) THEN a[k] ELSE 0

RECURSIVE NTrim(_)
\* a without leading zero digits
NTrim(a) ==
    IF a = <<>> THEN a
    ELSE IF a[Len(a)] = 0 THEN NTrim(SubSeq(a, 1, Len(a) - 1)) ELSE a

RECURSIVE NOfInt(_)
\* the digits of an integer n >= 0
NOfInt(n) == IF n = 0 THEN <<>> ELSE <<n % Limb>> \o NOfInt(n \div Limb)

RECURSIVE NCarry(_, _)
\* the digits of a sequence of columns of any size, the carry c moving up
NCarry(a, c) ==
    IF a = <<>> THEN NOfInt(c)
    ELSE LET v == a[1] + c IN <<v % Limb>> \o NCarry(Tail(a), v \div Limb)

NWidth(a, b) == IF Len(a) >= Len(b) THEN Len(a) ELSE Len(b)
NAdd(a, b) == NTrim(NCarry([k \in 1 .. NWidth(a, b) |-> NLimb(a, k) + NLimb(b, k)], 0))
\* a - b for a >= b
NSub(a, b) == NTrim(NCarry([k \in 1 .. NWidth(a, b) |-> NLimb(a, k) - NLimb(b, k)], 0))

RECURSIVE NCmpFrom(_, _, _)
NCmpFrom(a, b, k) ==
    IF k = 0 THEN 0
    ELSE IF a[k] > b[k] THEN 1
    ELSE IF a[k] < b[k] THEN -1
    ELSE NCmpFrom(a, b, k - 1)
\* -1, 0, 1 as a < b, a = b, a > b
NCmp(a, b) ==
    IF Len(a) > Len(b) THEN 1
    ELSE IF Len(a) < Len(b) THEN -1
    ELSE NCmpFrom(a, b, Len(a))

\* a times one digit d
NMulLimb(a, d) == NTrim(NCarry([k \in 1 .. Len(a) |-> a[k] * d], 0))
RECURSIVE NMulRows(_, _)
\* a * b, one digit of b at a time
NMulRows(a, b) ==
    IF b = <<>> THEN <<>>
    ELSE IF Len(b) = 1 THEN NMulLimb(a, b[1])
    ELSE LET high == NMulRows(a, Tail(b))
         IN  NAdd(NMulLimb(a, b[1]), IF high = <<>> THEN <<>> ELSE <<0>> \o high)
NMul(a, b) == IF Len(a) >= Len(b) THEN NMulRows(a, b) ELSE NMulRows(b, a)

\* a * 2^k
NShl(a, k) ==
    IF a = <<>> THEN <<>>
    ELSE NTrim(NCarry([j \in 1 .. (k \div LimbBits) |-> 0]
                          \o [j \in 1 .. Len(a) |-> a[j] * 2 ^ (k % LimbBits)], 0))
\* a \div 2^k
NShr(a, k) ==
    LET q == k \div LimbBits
        r == k % LimbBits
        b == IF q >= Len(a) THEN <<>> ELSE SubSeq(a, q + 1, Len(a))
    IN  NTrim([j \in 1 .. Len(b) |->
                  (b[j] \div 2 ^ r) + (NLimb(b, j + 1) % 2 ^ r) * 2 ^ (LimbBits - r)])

RECURSIVE NDivRem(_, _)
\* <<a \div d, a % d>> for an integer d in 1 .. 65535
NDivRem(a, d) ==
    IF a = <<>> THEN <<<<>>, 0>>
    ELSE LET high == NDivRem(Tail(a), d)
             v == high[2] * Limb + a[1]
         IN  <<NTrim(<<v \div d>> \o high[1]), v % d>>

RECURSIVE Bits(_)
\* the length of n >= 0 in bits
Bits(n) == IF n = 0 THEN 0 ELSE 1 + Bits(n \div 2)
NBits(a) == IF a = <<>> THEN 0 ELSE LimbBits * (Len(a) - 1) + Bits(a[Len(a)])

RECURSIVE LowZeros(_)
\* the number of zero bits at the low end of n > 0
LowZeros(n) == IF n % 2 = 1 THEN 0 ELSE 1 + LowZeros(n \div 2)
RECURSIVE NLowZeros(_)
NLowZeros(a) == IF a[1] = 0 THEN LimbBits + NLowZeros(Tail(a)) ELSE LowZeros(a[1])

Abs(n) == IF n < 0 THEN -n ELSE n
Sign(n) == IF n < 0 THEN -1 ELSE IF n = 0 THEN 0 ELSE 1

FZero == <<0, <<>>, 0>>
\* the one form of s * m * 2^e
FNorm(s, m, e) ==
    IF m = <<>> THEN FZero
    ELSE LET z == NLowZeros(m) IN <<s, NShr(m, z), e + z>>
\* the float nearest to s * m * 2^e, a tie going to the even significand.
\* Of the k bits m has too many, the highest says whether the rest is at least
\* a half, and the lower ones are all 0 exactly at a half.
FRound(s, m, e) ==
    LET n == NBits(m) IN
    IF n <= Precision THEN FNorm(s, m, e)
    ELSE LET k == n - Precision
             q2 == NShr(m, k - 1)
             q == NShr(q2, 1)
             half == q2[1] % 2 = 1
             more == NLowZeros(m) < k - 1
             up == half /\ (more \/ q[1] % 2 = 1)
         IN  FNorm(s, IF up THEN NAdd(q, <<1>>) ELSE q, e + k)

\* float(n) of an integer n
R(n) == FRound(Sign(n), NOfInt(Abs(n)), 0)
\* x + y
RAdd(x, y) ==
    IF x[1] = 0 THEN y
    ELSE IF y[1] = 0 THEN x
    ELSE IF Len(x[2]) = 1 /\ Len(y[2]) = 1 /\ Abs(x[3] - y[3]) <= LimbBits
      THEN \* one digit each and exponents close: the sum is an integer of TLC
           LET e == IF x[3] <= y[3] THEN x[3] ELSE y[3]
               v == x[1] * x[2][1] * 2 ^ (x[3] - e) + y[1] * y[2][1] * 2 ^ (y[3] - e)
               z == LowZeros(Abs(v))
           IN  IF v = 0 THEN FZero
               ELSE <<Sign(v), NOfInt(Abs(v) \div 2 ^ z), e + z>>
    ELSE LET e == IF x[3] <= y[3] THEN x[3] ELSE y[3]
             a == NShl(x[2], x[3] - e)
             b == NShl(y[2], y[3] - e)
             c == NCmp(a, b)
         IN  IF x[1] = y[1] THEN FRound(x[1], NAdd(a, b), e)
             ELSE IF c = 0 THEN FZero
             ELSE IF c > 0 THEN FRound(x[1], NSub(a, b), e)
             ELSE FRound(y[1], NSub(b, a), e)
\* x - y
RSub(x, y) == RAdd(x, <<-y[1], y[2], y[3]>>)
\* x * y
RMul(x, y) ==
    IF x[1] = 0 \/ y[1] = 0 THEN FZero
    ELSE IF Len(x[2]) = 1 /\ Len(y[2]) = 1
      THEN \* one digit each: the product of two odd numbers, below 2^30
           <<x[1] * y[1], NOfInt(x[2][1] * y[2][1]), x[3] + y[3]>>
    ELSE FRound(x[1] * y[1], NMul(x[2], y[2]), x[3] + y[3])
\* mot.py:249: 1.0 * n / d of two integers, 0 < |d| < 2^16.  The quotient of
\* n * 2^72 by d has at least 57 bits; a remainder is kept as one more low bit,
\* which rounds as the digits it stands for.
RDiv(n, d) ==
    IF n = 0 THEN FZero
    ELSE LET qr == NDivRem(NShl(NOfInt(Abs(n)), 72), Abs(d))
             m == NAdd(NShl(qr[1], 1), IF qr[2] # 0 THEN <<1>> ELSE <<>>)
         IN  FRound(Sign(n) * Sign(d), m, -73)

(***************************************************************************)
(* The record kinds the decoder names, and the exceptions.                 *)
(***************************************************************************)
HermiteKinds == {4, 5, 6, 7, 8}
QuantizedHermiteKinds == {5, 6, 7, 8}
SteppedQuantizedKinds == {2, 3}
HandledKinds == -1 .. 8
NoExc == "none"

(***************************************************************************)
(* Payload sizes in bytes, from the reads of each parse loop.              *)
(***************************************************************************)
PayloadBytes(kind, count) ==
    CASE kind = 1 -> 4 * count
      [] kind = 2 -> 8 + 2 * count
      [] kind = 3 -> 4 + count
      [] kind = 4 -> 16 * count
      [] kind = 5 -> 24 + 8 * count
      [] kind \in {6, 7} -> 12 + 4 * count
      [] kind = 8 -> 12 + 5 * count
      [] OTHER -> 0

(***************************************************************************)
(* Inputs: the files the decoder is run on.                                *)
(***************************************************************************)
SeqsUpTo(S, n) == UNION {[1 .. k -> S] : k \in 0 .. n}

\* mot.py:66, b'mot\0'
Magic == <<109, 111, 116, 0>>
BadMagic == <<109, 111, 116, 1>>
\* mot.py:89, the stride of the record table
RecordBytes == 12
\* mot.py:65-74, the bytes of the fixed header fields
HeaderBytes == 24
\* the bone reference of the terminator record
TerminatorBone == 32767

FloatVals == {R(0), R(1)}
\* (p, m0, m1) of a control point: values for kind 4, quantum codes for kinds 5..8
PointShapes == {<<0, 0, 0>>, <<1, 0, 0>>, <<1, 1, 0>>, <<0, 0, 1>>}
SteppedBases == {[p |-> R(10), dp |-> R(2)], [p |-> R(0), dp |-> R(1)]}
HermiteBases == {[p |-> R(10), dp |-> R(2), m0 |-> R(1), dm0 |-> R(2),
                  m1 |-> R(-1), dm1 |-> R(3)]}
NoPayload == [values |-> <<>>]

\* the last 4 bytes of a slot are const_p read as a float, rel_offset read as a uint32
Slot(bone, kind, count, tail, payload) ==
    [bone_index |-> bone, value_type |-> 0, record_type |-> kind,
     value_count |-> count, unknown |-> -1,
     const_p |-> IF kind = 0 THEN tail ELSE R(0),
     rel_offset |-> IF kind = 0 THEN 0 ELSE tail,
     payload |-> payload]

TerminatorSlots == {Slot(TerminatorBone, -1, 0, 0, NoPayload)}
ConstantSlots == {Slot(0, 0, 0, p, NoPayload) : p \in FloatVals}
SteppedSlots ==
    {Slot(0, 1, Len(v), 12, [values |-> v]) :
        v \in SeqsUpTo([p : FloatVals], MaxCount)}
QuantizedSlots ==
    {Slot(0, k, Len(v), 12, [p |-> b.p, dp |-> b.dp, values |-> v]) :
        k \in SteppedQuantizedKinds, b \in SteppedBases,
        v \in SeqsUpTo([cp : 0 .. MaxCode], MaxCount + 1)}
Kind4Points ==
    {[index |-> x, dummy |-> 0, p |-> R(s[1]), m0 |-> R(s[2]), m1 |-> R(s[3])] :
        x \in 0 .. MaxIndex, s \in PointShapes}
Kind4Slots ==
    {Slot(0, 4, Len(v), 12, [values |-> v]) : v \in SeqsUpTo(Kind4Points, MaxCount)}
QuantizedPoints ==
    {[index |-> x, cp |-> s[1], cm0 |-> s[2], cm1 |-> s[3]] :
        x \in 0 .. MaxIndex, s \in PointShapes}
QuantizedHermiteSlots ==
    {Slot(0, k, Len(v), 12,
          [p |-> b.p, dp |-> b.dp, m0 |-> b.m0, dm0 |-> b.dm0,
           m1 |-> b.m1, dm1 |-> b.dm1, values |-> v]) :
        k \in QuantizedHermiteKinds, b \in HermiteBases,
        v \in SeqsUpTo(QuantizedPoints, MaxCount)}
UnhandledSlots == {Slot(0, k, 0, 12, NoPayload) : k \in {9, -2}}

RecordSlots ==
    TerminatorSlots \cup ConstantSlots \cup SteppedSlots \cup QuantizedSlots
        \cup Kind4Slots \cup QuantizedHermiteSlots \cup UnhandledSlots

\* the slots of the files that hold several records
CatalogueSlots ==
    { Slot(TerminatorBone, -1, 0, 0, NoPayload),
      Slot(0, 0, 0, R(1), NoPayload),
      Slot(1, 2, 1, 100, [p |-> R(10), dp |-> R(2), values |-> <<[cp |-> 1]>>]),
      Slot(2, 4, 1, 200,
           [values |-> <<[index |-> 0, dummy |-> 0, p |-> R(1), m0 |-> R(0),
                          m1 |-> R(0)]>>]),
      Slot(3, 9, 0, 12, NoPayload) }

File(exists, magic, frame_count, slots) ==
    [exists |-> exists, magic |-> magic, hash |-> 0, flags |-> 0,
     frame_count |-> frame_count, records_offset |-> 44,
     records_count |-> Len(slots), unknown |-> 0, name_len |-> 6, slots |-> slots]

\* the bytes [first, last) of the payload of slot j of a record table at 44
PayloadRegion(ss, j) ==
    LET first == 44 + RecordBytes * (j - 1) + ss[j].rel_offset
    IN  <<first, first + PayloadBytes(ss[j].record_type, ss[j].value_count)>>

\* payloads lie behind the record table and do not overlap one another
Consistent(ss) ==
    \A j \in 1 .. Len(ss) :
        LET a == PayloadRegion(ss, j) IN
        a[1] < a[2] =>
            /\ a[1] >= 44 + RecordBytes * Len(ss)
            /\ \A k \in 1 .. Len(ss) :
                   LET b == PayloadRegion(ss, k) IN
                   (k # j /\ b[1] < b[2]) => (a[2] <= b[1] \/ b[2] <= a[1])

Files ==
    {File(TRUE, Magic, fc, <<s>>) : fc \in 0 .. MaxFrameCount, s \in RecordSlots}
      \cup {File(TRUE, m, fc, ss) :
              m \in {Magic, BadMagic}, fc \in 0 .. MaxFrameCount,
              ss \in {x \in SeqsUpTo(CatalogueSlots, MaxRecords) : Consistent(x)}}
      \cup {File(FALSE, Magic, 0, <<>>)}

(***************************************************************************)
(* State.                                                                  *)
(***************************************************************************)
VARIABLES
    file,       \* the buffer at mot_path (read only)
    cursor,     \* mot_file's position
    mot,        \* the MOT object: the attributes set so far and their values
    i,          \* the record loop's i (mot.py:87)
    rec,        \* the MOT_Record being built: self, with frame_index and value_index
    pc,         \* the statement the run is at
    exc,        \* the exception that ended the run, or NoExc
    bone,       \* absolute_bone_index's arguments: self.bone_index, translate_table, bone_count
    resolved    \* absolute_bone_index's outcome

vars == <<file, cursor, mot, i, rec, pc, exc, bone, resolved>>
motVars == <<file, cursor, mot, i, rec, pc, exc>>
boneVars == <<bone, resolved>>

NewMot == [attrs |-> {}, magic |-> <<>>, frame_count |-> 0, records_offset |-> 0,
           records_count |-> 0, records |-> <<>>]

NewRecord ==
    [offset |-> 0, bone_index |-> 0, value_type |-> 0, record_type |-> 0,
     value_count |-> 0, unknown |-> 0, values_offset |-> 0,
     p |-> R(0), dp |-> R(0), m0 |-> R(0), dm0 |-> R(0), m1 |-> R(0), dm1 |-> R(0),
     values |-> <<>>, frames |-> <<>>, frame_index |-> 0, value_index |-> 0,
     unhandled |-> FALSE]

NoBone == [bone_index |-> 0, translate_table |-> <<>>, bone_count |-> 0]
NotResolved == [called |-> FALSE, ret |-> 0, exc |-> NoExc, lookups |-> <<>>]

Init ==
    /\ file \in Files
    /\ cursor = 0
    /\ mot = NewMot
    /\ i = 0
    /\ rec = NewRecord
    /\ pc = "main_parse"
    /\ exc = NoExc
    /\ bone = NoBone
    /\ resolved = NotResolved

(***************************************************************************)
(* What the readers find in the buffer.                                    *)
(***************************************************************************)
SlotPos(j) == file.records_offset + RecordBytes * (j - 1)

\* the record slots whose 12 bytes start at position c
SlotsAt(c) == {j \in 1 .. Len(file.slots) : SlotPos(j) = c}
\* the record slots whose payload starts at position c
PayloadsAt(c) ==
    {j \in 1 .. Len(file.slots) :
        /\ file.slots[j].record_type \in 1 .. 8
        /\ SlotPos(j) + file.slots[j].rel_offset = c}

(***************************************************************************)
(* MOT.__init__ and its caller.                                            *)
(***************************************************************************)
Raise(e) == pc' = "raised" /\ exc' = e

\* mot_importer.py:21 calling MOT(mot_path); mot.py:52-62
MainParse ==
    /\ pc = "main_parse"
    /\ mot' = [mot EXCEPT !.attrs = {"filepath"}]
    /\ pc' = IF file.exists THEN "mot_magic" ELSE "main_name"
    /\ UNCHANGED <<file, cursor, i, rec, exc, boneVars>>

\* mot.py:65-68: a wrong magic prints a message and returns from __init__
MotMagic ==
    /\ pc = "mot_magic"
    /\ cursor' = cursor + 4
    /\ mot' = [mot EXCEPT !.attrs = @ \cup {"magic"}, !.magic = file.magic]
    /\ pc' = IF file.magic # Magic THEN "main_name" ELSE "mot_header"
    /\ UNCHANGED <<file, i, rec, exc, boneVars>>

\* mot.py:69-86
MotHeader ==
    /\ pc = "mot_header"
    /\ cursor' = HeaderBytes + file.name_len + 1
    /\ mot' = [mot EXCEPT
                 !.attrs = @ \cup {"hash", "flags", "frame_count", "records_offset",
                                   "records_count", "unknown", "name", "records"},
                 !.frame_count = file.frame_count,
                 !.records_offset = file.records_offset,
                 !.records_count = file.records_count,
                 !.records = <<>>]
    /\ i' = 0
    /\ pc' = "mot_loop"
    /\ UNCHANGED <<file, rec, exc, boneVars>>

\* a record loop that seeks to the record table once and then reads each header
\* where the record before it left the cursor
MotNextRecordSequential ==
    /\ pc = "mot_loop"
    /\ i < mot.records_count
    /\ cursor' = IF i = 0 THEN mot.records_offset ELSE cursor
    /\ rec' = NewRecord
    /\ pc' = "rec_header"
    /\ UNCHANGED <<file, mot, i, exc, boneVars>>

\* mot.py:87-90: seek to the i-th slot and construct its MOT_Record
MotNextRecord ==
    /\ pc = "mot_loop"
    /\ i < mot.records_count
    /\ cursor' = mot.records_offset + 12 * i
    /\ rec' = NewRecord
    /\ pc' = "rec_header"
    /\ UNCHANGED <<file, mot, i, exc, boneVars>>

\* mot.py:90-91: the constructed record joins mot.records
MotAppendRecord ==
    /\ pc = "mot_append"
    /\ mot' = [mot EXCEPT !.records = Append(@, rec)]
    /\ i' = i + 1
    /\ pc' = "mot_loop"
    /\ UNCHANGED <<file, cursor, rec, exc, boneVars>>

\* mot.py:87, 93: the loop is over, the file is closed, __init__ returns
MotClose ==
    /\ pc = "mot_loop"
    /\ i >= mot.records_count
    /\ pc' = "main_name"
    /\ UNCHANGED <<file, cursor, mot, i, rec, exc, boneVars>>

\* mot_importer.py:22: mot.name
MainName ==
    /\ pc = "main_name"
    /\ IF "name" \in mot.attrs
         THEN pc' = "main_records" /\ exc' = exc
         ELSE Raise("AttributeError")
    /\ UNCHANGED <<file, cursor, mot, i, rec, boneVars>>

\* mot_importer.py:26, 45: no record to format, the action is built next
MainNoRecords ==
    /\ pc = "main_records"
    /\ mot.records = <<>>
    /\ pc' = "main_action"
    /\ UNCHANGED <<file, cursor, mot, i, rec, exc, boneVars>>

\* mot_importer.py:26-27: record.bone_index is an int and is called
MainFirstRecord ==
    /\ pc = "main_records"
    /\ mot.records # <<>>
    /\ Raise("TypeError")
    /\ UNCHANGED <<file, cursor, mot, i, rec, boneVars>>

(***************************************************************************)
(* MOT_Record.__init__: the header and the payload.                        *)
(***************************************************************************)
\* mot.py:100-117: a read outside the record table finds no header
RecordHeader ==
    /\ pc = "rec_header"
    /\ IF SlotsAt(cursor) = {}
         THEN /\ Raise("struct.error")
              /\ UNCHANGED <<cursor, rec>>
         ELSE LET h == file.slots[CHOOSE j \in SlotsAt(cursor) : TRUE] IN
              /\ rec' = [rec EXCEPT !.offset = cursor, !.frames = <<>>,
                                    !.bone_index = h.bone_index,
                                    !.value_type = h.value_type,
                                    !.record_type = h.record_type,
                                    !.value_count = h.value_count,
                                    !.unknown = h.unknown]
              /\ cursor' = cursor + 8
              /\ pc' = "rec_kind"
              /\ exc' = exc
    /\ UNCHANGED <<file, mot, i, boneVars>>

\* the trailing 4 bytes of the header being read
HeaderTail == file.slots[CHOOSE j \in SlotsAt(rec.offset) : TRUE]

\* mot.py:119-121
RecordTerminator ==
    /\ pc = "rec_kind"
    /\ rec.record_type = -1
    /\ pc' = "mot_append"
    /\ UNCHANGED <<file, cursor, mot, i, rec, exc, boneVars>>

\* mot.py:125-128
RecordConstant ==
    /\ pc = "rec_kind"
    /\ rec.record_type = 0
    /\ rec' = [rec EXCEPT !.p = HeaderTail.const_p, !.frame_index = 0]
    /\ cursor' = cursor + 4
    /\ pc' = "gen_constant"
    /\ UNCHANGED <<file, mot, i, exc, boneVars>>

\* mot.py:136-138
RecordSeekValues ==
    /\ pc = "rec_kind"
    /\ rec.record_type \notin {-1, 0}
    /\ rec' = [rec EXCEPT !.values_offset = rec.offset + HeaderTail.rel_offset]
    /\ cursor' = rec.offset + HeaderTail.rel_offset
    /\ pc' = "parse_values"
    /\ UNCHANGED <<file, mot, i, exc, boneVars>>

\* the payload a parse loop reads at the cursor
PayloadAtCursor == file.slots[CHOOSE j \in PayloadsAt(cursor) : TRUE].payload

GenLoopOf(kind) ==
    CASE kind = 1 -> "gen_stepped"
      [] kind \in SteppedQuantizedKinds -> "gen_quantized"
      [] OTHER -> "gen_first"

\* mot.py:146-154, 167-179, 191-203, 219-236, 265-292, 318-345, 371-398, 424-451
ParseValues ==
    /\ pc = "parse_values"
    /\ rec.record_type \in 1 .. 8
    /\ IF PayloadsAt(cursor) = {}
         THEN /\ Raise("struct.error")
              /\ UNCHANGED <<cursor, rec>>
         ELSE LET q == PayloadAtCursor
                  k == rec.record_type
              IN
              /\ rec' = [rec EXCEPT
                    !.values = SubSeq(q.values, 1, rec.value_count),
                    !.p = IF k \in SteppedQuantizedKinds \cup QuantizedHermiteKinds
                            THEN q.p ELSE @,
                    !.dp = IF k \in SteppedQuantizedKinds \cup QuantizedHermiteKinds
                             THEN q.dp ELSE @,
                    !.m0 = IF k \in QuantizedHermiteKinds THEN q.m0 ELSE @,
                    !.dm0 = IF k \in QuantizedHermiteKinds THEN q.dm0 ELSE @,
                    !.m1 = IF k \in QuantizedHermiteKinds THEN q.m1 ELSE @,
                    !.dm1 = IF k \in QuantizedHermiteKinds THEN q.dm1 ELSE @,
                    !.frame_index = 0]
              /\ cursor' = cursor + PayloadBytes(k, rec.value_count)
              /\ pc' = GenLoopOf(k)
              /\ exc' = exc
    /\ UNCHANGED <<file, mot, i, boneVars>>

\* mot.py:476-477: the message is printed and __init__ returns
RecordUnhandled ==
    /\ pc = "parse_values"
    /\ rec.record_type \notin 1 .. 8
    /\ rec' = [rec EXCEPT !.unhandled = TRUE]
    /\ pc' = "mot_append"
    /\ UNCHANGED <<file, cursor, mot, i, exc, boneVars>>

(***************************************************************************)
(* MOT_Record.__init__: frame generation.                                  *)
(***************************************************************************)
AppendFrame(r, f) ==
    [r EXCEPT !.frames = Append(@, f), !.frame_index = @ + 1]

\* the return of MOT_Record.__init__ to mot.py:90
RecordReturn ==
    /\ pc' = "mot_append"
    /\ UNCHANGED <<file, cursor, mot, i, rec, exc, boneVars>>

\* mot.py:131-132
GenConstant ==
    /\ pc = "gen_constant"
    /\ rec.frame_index < mot.frame_count
    /\ rec' = AppendFrame(rec, rec.p)
    /\ UNCHANGED <<file, cursor, mot, i, pc, exc, boneVars>>

\* mot.py:131, 134
GenConstantReturn ==
    /\ pc = "gen_constant"
    /\ rec.frame_index >= mot.frame_count
    /\ RecordReturn

\* mot.py:157-161: value_index is a local that line 159 reads before any assignment
GenStepped ==
    /\ pc = "gen_stepped"
    /\ rec.frame_index < mot.frame_count
    /\ IF rec.frame_index < Len(rec.values)
         THEN Raise("UnboundLocalError") /\ rec' = rec
         ELSE IF Len(rec.values) = 0
                THEN Raise("IndexError") /\ rec' = rec
                ELSE /\ rec' = AppendFrame(rec, rec.values[Len(rec.values)].p)
                     /\ UNCHANGED <<pc, exc>>
    /\ UNCHANGED <<file, cursor, mot, i, boneVars>>

\* mot.py:157, 163
GenSteppedReturn ==
    /\ pc = "gen_stepped"
    /\ rec.frame_index >= mot.frame_count
    /\ RecordReturn

\* mot.py:184, 186, 208, 210: p + dp * cp
Quantized(r, cp) == RAdd(r.p, RMul(r.dp, R(cp)))

\* GenQuantized with a frame past the list taking the first code
GenQuantizedReusesFirst ==
    /\ pc = "gen_quantized"
    /\ rec.frame_index < mot.frame_count
    /\ IF Len(rec.values) = 0
         THEN Raise("IndexError") /\ rec' = rec
         ELSE /\ rec' = AppendFrame(rec,
                          Quantized(rec,
                                    rec.values[IF rec.frame_index >= Len(rec.values)
                                                 THEN 1
                                                 ELSE rec.frame_index + 1].cp))
              /\ UNCHANGED <<pc, exc>>
    /\ UNCHANGED <<file, cursor, mot, i, boneVars>>

\* mot.py:182-186, 206-210
GenQuantized ==
    /\ pc = "gen_quantized"
    /\ rec.frame_index < mot.frame_count
    /\ IF rec.frame_index >= Len(rec.values)
         THEN IF Len(rec.values) = 0
                THEN Raise("IndexError") /\ rec' = rec
                ELSE /\ rec' = AppendFrame(rec,
                                 Quantized(rec, rec.values[Len(rec.values)].cp))
                     /\ UNCHANGED <<pc, exc>>
         ELSE /\ rec' = AppendFrame(rec,
                          Quantized(rec, rec.values[rec.frame_index + 1].cp))
              /\ UNCHANGED <<pc, exc>>
    /\ UNCHANGED <<file, cursor, mot, i, boneVars>>

\* mot.py:182, 188, 206, 212
GenQuantizedReturn ==
    /\ pc = "gen_quantized"
    /\ rec.frame_index >= mot.frame_count
    /\ RecordReturn

\* value of control point j (1-based): mot.py:241, 244-245, 296, 301-302
PointValue(r, j) ==
    IF r.record_type = 4 THEN r.values[j].p
    ELSE RAdd(r.p, RMul(r.dp, R(r.values[j].cp)))

\* OutgoingSlope taking the point's stored m0
OutgoingSlopeFromM0(r, j) ==
    IF r.record_type = 4 THEN r.values[j].m0
    ELSE RAdd(r.m0, RMul(r.dm0, R(r.values[j].cm0)))

\* mot.py:246, 303: the stored m1 of the segment's first point
OutgoingSlope(r, j) ==
    IF r.record_type = 4 THEN r.values[j].m1
    ELSE RAdd(r.m1, RMul(r.dm1, R(r.values[j].cm1)))

\* mot.py:247, 304: the stored m0 of the segment's second point
IncomingSlope(r, j) ==
    IF r.record_type = 4 THEN r.values[j].m0
    ELSE RAdd(r.m0, RMul(r.dm0, R(r.values[j].cm0)))

\* mot.py:250: the four polynomials of t that multiply p0, m0, p1 and m1
HermiteBasis(t) ==
    LET tt == RMul(t, t)                        \* t*t
        ttt == RMul(tt, t)                      \* t*t*t
        tt2 == RMul(RMul(R(2), t), t)           \* 2*t*t
        ttt2 == RMul(tt2, t)                    \* 2*t*t*t
        tt3 == RMul(RMul(R(3), t), t)           \* 3*t*t
        ttt2n == RMul(RMul(RMul(R(-2), t), t), t)   \* -2*t*t*t
    IN  <<RAdd(RSub(ttt2, tt3), R(1)), RAdd(RSub(ttt, tt2), t),
          RAdd(ttt2n, tt3), RSub(ttt, tt)>>
\* the polynomials at the quotients of two indices, computed once
IndexQuotients ==
    {RDiv(n, d) : n \in -MaxIndex .. MaxIndex, d \in (-MaxIndex .. MaxIndex) \ {0}}
BasisAtQuotients == {<<t, HermiteBasis(t)>> : t \in IndexQuotients}
\* mot.py:250
Hermite(t, p0, m0, p1, m1) ==
    LET h == IF t \in IndexQuotients
               THEN (CHOOSE b \in BasisAtQuotients : b[1] = t)[2]
               ELSE HermiteBasis(t)
    IN  RAdd(RAdd(RAdd(RMul(h[1], p0), RMul(h[2], m0)), RMul(h[3], p1)), RMul(h[4], m1))

\* a segment loop that starts one frame early, on the previous point's own frame
SegmentRunsFromPreviousFrame(r, j) ==
    IF r.record_type = 7
      THEN r.frame_index <= r.frame_index - 1 + r.values[j].index
      ELSE r.frame_index - 1 <= r.values[j].index

\* mot.py:248, 305, 358, 464; 411 for kind 7. j is value_index + 1.
SegmentRuns(r, j) ==
    IF r.record_type = 7
      THEN r.frame_index <= r.frame_index - 1 + r.values[j].index
      ELSE r.frame_index <= r.values[j].index

\* mot.py:249, 306, 359, 465; 412 for kind 7: numerator and denominator of t
SegmentT(r, j) ==
    IF r.record_type = 7
      THEN <<1, r.values[j].index>>
      ELSE <<r.frame_index - r.values[j - 1].index,
             r.values[j].index - r.values[j - 1].index>>

\* mot.py:239-242, 295-299: values[0] of an empty list raises
HermiteFirst ==
    /\ pc = "gen_first"
    /\ IF Len(rec.values) = 0
         THEN Raise("IndexError") /\ rec' = rec
         ELSE /\ rec.frame_index <= rec.values[1].index
              /\ rec' = AppendFrame(rec, PointValue(rec, 1))
              /\ UNCHANGED <<pc, exc>>
    /\ UNCHANGED <<file, cursor, mot, i, boneVars>>

\* mot.py:240, 243: the first loop is left, the segment loop starts at value_index 1
HermiteFirstDone ==
    /\ pc = "gen_first"
    /\ Len(rec.values) > 0
    /\ rec.frame_index > rec.values[1].index
    /\ rec' = [rec EXCEPT !.value_index = 1]
    /\ pc' = "gen_segment"
    /\ UNCHANGED <<file, cursor, mot, i, exc, boneVars>>

\* mot.py:249-250, 306-307, 359-360, 412-413, 465-466: the frame a turn of the
\* segment loop appends, t's denominator not being 0
SegmentFrame(r, j) ==
    LET t == SegmentT(r, j)
    IN  Hermite(RDiv(t[1], t[2]),
                PointValue(r, j - 1), OutgoingSlope(r, j - 1),
                PointValue(r, j), IncomingSlope(r, j))

\* mot.py:248-252 (and 305-309, 358-362, 411-415, 464-468)
HermiteSegment ==
    /\ pc = "gen_segment"
    /\ rec.value_index < Len(rec.values)
    /\ SegmentRuns(rec, rec.value_index + 1)
    /\ Len(rec.frames) < FrameCap
    /\ IF SegmentT(rec, rec.value_index + 1)[2] = 0
         THEN Raise("ZeroDivisionError") /\ rec' = rec
         ELSE /\ rec' = AppendFrame(rec, SegmentFrame(rec, rec.value_index + 1))
              /\ UNCHANGED <<pc, exc>>
    /\ UNCHANGED <<file, cursor, mot, i, boneVars>>

\* mot.py:243, 248: the while condition fails, the for loop takes the next point
HermiteNextPoint ==
    /\ pc = "gen_segment"
    /\ rec.value_index < Len(rec.values)
    /\ ~SegmentRuns(rec, rec.value_index + 1)
    /\ rec' = [rec EXCEPT !.value_index = @ + 1]
    /\ UNCHANGED <<file, cursor, mot, i, pc, exc, boneVars>>

\* mot.py:243, 253: the for loop is over
HermiteSegmentsDone ==
    /\ pc = "gen_segment"
    /\ rec.value_index >= Len(rec.values)
    /\ pc' = "gen_tail"
    /\ UNCHANGED <<file, cursor, mot, i, rec, exc, boneVars>>

\* mot.py:254-255: MOT_Record has no append
HermiteTail ==
    /\ pc = "gen_tail"
    /\ rec.frame_index < mot.frame_count
    /\ Raise("AttributeError")
    /\ UNCHANGED <<file, cursor, mot, i, rec, boneVars>>

\* mot.py:254, 258
HermiteReturn ==
    /\ pc = "gen_tail"
    /\ rec.frame_index >= mot.frame_count
    /\ RecordReturn

(***************************************************************************)
(* MOT_Record.absolute_bone_index.                                         *)
(***************************************************************************)
\* a Python list index k is valid from -len to len - 1
InRange(table, k) == -Len(table) <= k /\ k < Len(table)
PyGet(table, k) == IF k >= 0 THEN table[k + 1] ELSE table[Len(table) + k + 1]

Returned(ret, lookups) ==
    [called |-> TRUE, ret |-> ret, exc |-> NoExc, lookups |-> lookups]
IndexFailed(lookups) ==
    [called |-> TRUE, ret |-> 0, exc |-> "IndexError", lookups |-> lookups]

\* AbsoluteBoneIndex taking the nibbles least significant first
AbsoluteBoneIndexLowNibbleFirst(bone_index, translate_table, bone_count) ==
    LET k1 == bone_index % 16 IN
    IF bone_index = -1 THEN Returned(bone_count, <<>>)
    ELSE IF ~InRange(translate_table, k1) THEN IndexFailed(<<k1>>)
    ELSE
      LET index1 == PyGet(translate_table, k1)
          k2 == ((bone_index \div 16) % 16) + index1
      IN
      IF index1 = -1 THEN Returned(4095, <<k1>>)
      ELSE IF ~InRange(translate_table, k2) THEN IndexFailed(<<k1, k2>>)
      ELSE
        LET index2 == PyGet(translate_table, k2)
            k3 == ((bone_index \div 256) % 16) + index2
        IN
        IF index2 = -1 THEN Returned(4095, <<k1, k2>>)
        ELSE IF ~InRange(translate_table, k3) THEN IndexFailed(<<k1, k2, k3>>)
        ELSE Returned(PyGet(translate_table, k3), <<k1, k2, k3>>)

\* mot.py:480-487; lookups are the table indices read, in order
AbsoluteBoneIndex(bone_index, translate_table, bone_count) ==
    LET k1 == (bone_index \div 256) % 16 IN
    IF bone_index = -1 THEN Returned(bone_count, <<>>)
    ELSE IF ~InRange(translate_table, k1) THEN IndexFailed(<<k1>>)
    ELSE
      LET index1 == PyGet(translate_table, k1)
          k2 == ((bone_index \div 16) % 16) + index1
      IN
      IF index1 = -1 THEN Returned(4095, <<k1>>)
      ELSE IF ~InRange(translate_table, k2) THEN IndexFailed(<<k1, k2>>)
      ELSE
        LET index2 == PyGet(translate_table, k2)
            k3 == (bone_index % 16) + index2
        IN
        IF index2 = -1 THEN Returned(4095, <<k1, k2>>)
        ELSE IF ~InRange(translate_table, k3) THEN IndexFailed(<<k1, k2, k3>>)
        ELSE Returned(PyGet(translate_table, k3), <<k1, k2, k3>>)

CallAbsoluteBoneIndex ==
    /\ ~resolved.called
    /\ resolved' = AbsoluteBoneIndex(bone.bone_index, bone.translate_table,
                                     bone.bone_count)
    /\ UNCHANGED <<bone, motVars>>

BoneRefs ==
    {-1} \cup {256 * a + 16 * b + c : a, b, c \in 0 .. MaxNibble}
TableEntries == {-2} \cup (-1 .. MaxEntry)
BoneInputs ==
    [bone_index : BoneRefs, translate_table : [1 .. TableLen -> TableEntries],
     bone_count : {MaxEntry + 1, MaxEntry + 2}]

InitBone ==
    /\ file = File(FALSE, Magic, 0, <<>>)
    /\ cursor = 0
    /\ mot = NewMot
    /\ i = 0
    /\ rec = NewRecord
    /\ pc = "resolve"
    /\ exc = NoExc
    /\ bone \in BoneInputs
    /\ resolved = NotResolved

NextBone == CallAbsoluteBoneIndex

SpecBone == InitBone /\ [][NextBone]_vars

Next ==
    \/ MainParse
    \/ MotMagic
    \/ MotHeader
    \/ MotNextRecord
    \/ MotAppendRecord
    \/ MotClose
    \/ MainName
    \/ MainNoRecords
    \/ MainFirstRecord
    \/ RecordHeader
    \/ RecordTerminator
    \/ RecordConstant
    \/ RecordSeekValues
    \/ ParseValues
    \/ RecordUnhandled
    \/ GenConstant
    \/ GenConstantReturn
    \/ GenStepped
    \/ GenSteppedReturn
    \/ GenQuantized
    \/ GenQuantizedReturn
    \/ HermiteFirst
    \/ HermiteFirstDone
    \/ HermiteSegment
    \/ HermiteNextPoint
    \/ HermiteSegmentsDone
    \/ HermiteTail
    \/ HermiteReturn

Spec == Init /\ [][Next]_vars

(***************************************************************************)
(* Properties.                                                             *)
(***************************************************************************)
\* the exceptions MOT_Record.__init__ can end with
RecordExceptions ==
    {"UnboundLocalError", "IndexError", "AttributeError", "ZeroDivisionError",
     "struct.error"}
\* MOT_Record.__init__ has returned rec to the record loop
RecordReturned == pc = "mot_append"
\* MOT_Record.__init__ has ended for rec, by a return or by an exception
RecordEnded == RecordReturned \/ (pc = "raised" /\ exc \in RecordExceptions)
Min(a, b) == IF a <= b THEN a ELSE b

\* a record of kind 0..8 that has at least one keyframe (kind 0 stores none)
HasKeyframes(r) ==
    /\ r.record_type \in 0 .. 8
    /\ r.record_type = 0 \/ Len(r.values) >= 1

\* C1: once the construction of a record of kind 0..8 with at least one keyframe
\* has ended in a file with frame_count >= 1, it has returned a frames list of
\* exactly frame_count elements.
C1_FramesHaveFrameCountElements ==
    (HasKeyframes(rec) /\ mot.frame_count >= 1 /\ RecordEnded) =>
        (RecordReturned /\ Len(rec.frames) = mot.frame_count)

\* C2: once the construction of a kind 1 record with count >= 1 keyframes has
\* ended, it has returned frames with frames[i] = values[i].p for i < count and
\* the last keyframe's p for count <= i < frame_count.
C2_SteppedHoldsLast ==
    (rec.record_type = 1 /\ Len(rec.values) >= 1 /\ RecordEnded) =>
        /\ RecordReturned
        /\ Len(rec.frames) = mot.frame_count
        /\ \A f \in 1 .. mot.frame_count :
              rec.frames[f] = rec.values[Min(f, Len(rec.values))].p

\* C3: a kind 2 or 3 record with count >= 1 quantum codes is constructed without
\* an exception, and its frames are p + dp * quantum[min(i, count-1)] for every
\* frame i in 0 .. frame_count-1.
C3_QuantizedClampsToLastCode ==
    (rec.record_type \in {2, 3} /\ Len(rec.values) >= 1) =>
        /\ exc \notin RecordExceptions
        /\ RecordReturned =>
              /\ Len(rec.frames) = mot.frame_count
              /\ \A f \in 1 .. mot.frame_count :
                    LET cp == rec.values[Min(f, Len(rec.values))].cp
                    IN  rec.frames[f] = RAdd(rec.p, RMul(rec.dp, R(cp)))

\* C3 witness: p = 10, dp = 2, codes [0, 1, 2] sampled to 10, 12, 14, 14.
C3_Witness ==
    /\ RecordReturned
    /\ rec.record_type = 2
    /\ rec.p = R(10) /\ rec.dp = R(2)
    /\ rec.values = <<[cp |-> 0], [cp |-> 1], [cp |-> 2]>>
    /\ rec.frames = <<R(10), R(12), R(14), R(14)>>

AbsoluteHermiteKinds == {4, 5, 6, 8}

\* base + delta * code, for floats base and delta and an integer code
ClaimQuantum(base, delta, code) == RAdd(base, RMul(delta, R(code)))
\* the value, the stored m0 and the stored m1 of control point j, as section 4.4
\* of the format description gives them
ClaimP(r, j) ==
    IF r.record_type = 4 THEN r.values[j].p
    ELSE ClaimQuantum(r.p, r.dp, r.values[j].cp)
ClaimM0(r, j) ==
    IF r.record_type = 4 THEN r.values[j].m0
    ELSE ClaimQuantum(r.m0, r.dm0, r.values[j].cm0)
ClaimM1(r, j) ==
    IF r.record_type = 4 THEN r.values[j].m1
    ELSE ClaimQuantum(r.m1, r.dm1, r.values[j].cm1)
FirstIndex(r) == r.values[1].index
LastIndex(r) == r.values[Len(r.values)].index

\* C4: for kinds 4, 5, 6, 8 every frame at or before the first control point's
\* index is the first point's value, and with frame_count > last index + 1 the
\* construction returns with every frame after the last index equal to the last
\* point's value.
C4_HermiteExtrapolates ==
    (rec.record_type \in AbsoluteHermiteKinds /\ Len(rec.values) >= 1 /\ RecordEnded) =>
        /\ \A f \in 0 .. FirstIndex(rec) :
              Len(rec.frames) > f /\ rec.frames[f + 1] = ClaimP(rec, 1)
        /\ mot.frame_count > LastIndex(rec) + 1 =>
              /\ RecordReturned
              /\ \A f \in LastIndex(rec) + 1 .. mot.frame_count - 1 :
                    /\ Len(rec.frames) > f
                    /\ rec.frames[f + 1] = ClaimP(rec, Len(rec.values))

StrictlyIncreasing(values) ==
    \A j \in 1 .. Len(values) - 1 : values[j].index < values[j + 1].index

RECURSIVE Product(_, _)
\* x[1] * ... * x[n] in double arithmetic, from the left
Product(x, n) == IF n = 1 THEN x[1] ELSE RMul(Product(x, n - 1), x[n])

\* the cubic Hermite value at t = a / d between p0 (slope mo) and p1 (slope mi):
\* (2t^3 - 3t^2 + 1) p0 + (t^3 - 2t^2 + t) mo + (-2t^3 + 3t^2) p1 + (t^3 - t^2) mi
\* in double arithmetic, each sum and product taken from the left
CubicHermite(a, d, p0, mo, p1, mi) ==
    LET t == RDiv(a, d)
        t2 == Product(<<t, t>>, 2)                  \* t^2
        t3 == RMul(t2, t)                           \* t^3
        t2x2 == Product(<<R(2), t, t>>, 3)          \* 2t^2
        t2x3 == Product(<<R(3), t, t>>, 3)          \* 3t^2
        t3x2 == RMul(t2x2, t)                       \* 2t^3
        t3xm2 == Product(<<R(-2), t, t, t>>, 4)     \* -2t^3
        b00 == RAdd(RSub(t3x2, t2x3), R(1))
        b10 == RAdd(RSub(t3, t2x2), t)
        b01 == RAdd(t3xm2, t2x3)
        b11 == RSub(t3, t2)
    IN  RAdd(RAdd(RAdd(RMul(b00, p0), RMul(b10, mo)), RMul(b01, p1)), RMul(b11, mi))

\* C5: for kinds 4, 5, 6, 8 with strictly increasing indices, the frame at every f
\* with idx_j < f <= idx_j+1 is the cubic Hermite value at
\* t = (f - idx_j) / (idx_j+1 - idx_j) of p_j, p_j+1, point j's stored m1 and point
\* j+1's stored m0; the frame at each point's own index is that point's value;
\* all these frames exist once the segment loop is over.
C5_HermiteInterpolates ==
    (rec.record_type \in AbsoluteHermiteKinds /\ Len(rec.values) >= 1
        /\ StrictlyIncreasing(rec.values)) =>
        /\ pc \in {"gen_tail", "mot_append"} => Len(rec.frames) > LastIndex(rec)
        /\ \A j \in 1 .. Len(rec.values) - 1 :
              \A f \in rec.values[j].index + 1 .. rec.values[j + 1].index :
                 f < Len(rec.frames) =>
                    rec.frames[f + 1] =
                       CubicHermite(f - rec.values[j].index,
                                    rec.values[j + 1].index - rec.values[j].index,
                                    ClaimP(rec, j), ClaimM1(rec, j),
                                    ClaimP(rec, j + 1), ClaimM0(rec, j + 1))
        /\ \A j \in 1 .. Len(rec.values) :
              rec.values[j].index < Len(rec.frames) =>
                 rec.frames[rec.values[j].index + 1] = ClaimP(rec, j)

\* C5 witness: (index 0, p 0) and (index 2, p 1) with zero derivatives and
\* frame_count 3 sampled to 0, 1/2, 1.
C5_Witness ==
    /\ RecordReturned
    /\ rec.record_type = 4
    /\ mot.frame_count = 3
    /\ rec.values = <<[index |-> 0, dummy |-> 0, p |-> R(0), m0 |-> R(0), m1 |-> R(0)],
                      [index |-> 2, dummy |-> 0, p |-> R(1), m0 |-> R(0), m1 |-> R(0)]>>
    /\ rec.frames = <<R(0), RDiv(1, 2), R(1)>>

RECURSIVE RunningSum(_, _)
RunningSum(values, j) ==
    IF j = 0 THEN 0 ELSE RunningSum(values, j - 1) + values[j].index

\* the kind 6 record with the running sums of r's relative indices as absolute
\* indices and otherwise equal fields, before its frame generation
AbsoluteTwin(r) ==
    [r EXCEPT !.record_type = 6,
              !.values = [j \in 1 .. Len(r.values) |->
                            [r.values[j] EXCEPT !.index = RunningSum(r.values, j)]],
              !.frames = <<>>, !.frame_index = 0, !.value_index = 0]

\* mot.py:348-352 run to the end of the first loop
RECURSIVE FirstLoop(_)
FirstLoop(r) ==
    IF r.frame_index <= r.values[1].index
      THEN FirstLoop(AppendFrame(r, PointValue(r, 1)))
      ELSE r

\* mot.py:353-362 run from control point j (1-based) to the end of the for loop
RECURSIVE SegmentLoop(_, _)
SegmentLoop(r, j) ==
    IF j > Len(r.values) THEN r
    ELSE IF SegmentRuns(r, j) THEN SegmentLoop(AppendFrame(r, SegmentFrame(r, j)), j)
    ELSE SegmentLoop(r, j + 1)

IsPrefix(s, t) == Len(s) <= Len(t) /\ \A k \in 1 .. Len(s) : s[k] = t[k]

\* C6: a kind 7 record is sampled as the kind 6 record with the running sums of
\* its deltas as absolute indices: the frames it has generated are at every
\* moment a prefix of that record's frames, and its construction ends as that
\* record's does (a return exactly when frame_count <= last index + 1) with the
\* same frames.
C6_RelativeIndexSamplesAsAbsolute ==
    (rec.record_type = 7 /\ Len(rec.values) >= 1
        /\ pc \in {"gen_first", "gen_segment", "gen_tail", "mot_append", "raised"}) =>
        LET twin == SegmentLoop(FirstLoop(AbsoluteTwin(rec)), 2) IN
        /\ IsPrefix(rec.frames, twin.frames)
        /\ RecordEnded =>
              /\ rec.frames = twin.frames
              /\ RecordReturned <=> twin.frame_index >= mot.frame_count

\* C7: a record whose kind is outside -1 .. 8 is never returned to the record
\* loop as a constructed record, so it never joins mot.records and no later slot
\* is decoded after it.
C7_UnsupportedKindIsFatal ==
    /\ RecordReturned => rec.record_type \in HandledKinds
    /\ \A k \in 1 .. Len(mot.records) : mot.records[k].record_type \in HandledKinds

\* C8: with a wrong magic MOT.__init__ does not return to its caller as a
\* constructed object (it ends with an error), nothing behind the magic is read
\* and no record is decoded.
C8_BadMagicFails ==
    (file.exists /\ file.magic # Magic) =>
        /\ pc \notin {"main_name", "main_records", "main_action"}
        /\ cursor <= 4
        /\ mot.attrs \subseteq {"filepath", "magic"}
        /\ mot.records = <<>>

\* the three nibbles of a bone reference, bits 11..8, 7..4 and 3..0
Nibble1(b) == (b \div 256) % 16
Nibble2(b) == (b \div 16) % 16
Nibble3(b) == b % 16
\* entry k of a table, a negative k counting from its end
TableAt(table, k) == table[IF k >= 0 THEN k + 1 ELSE Len(table) + k + 1]
TableHas(table, k) == k >= -Len(table) /\ k < Len(table)
\* the table indices of the first, second and third lookup of the walk
Walk1 == Nibble1(bone.bone_index)
Walk2 == Nibble2(bone.bone_index) + TableAt(bone.translate_table, Walk1)
Walk3 == Nibble3(bone.bone_index) + TableAt(bone.translate_table, Walk2)
\* the first, second, third lookup is made and reads -1
Missing1 ==
    /\ TableHas(bone.translate_table, Walk1)
    /\ TableAt(bone.translate_table, Walk1) = -1
Missing2 ==
    /\ TableHas(bone.translate_table, Walk1)
    /\ TableAt(bone.translate_table, Walk1) # -1
    /\ TableHas(bone.translate_table, Walk2)
    /\ TableAt(bone.translate_table, Walk2) = -1
Reaches3 ==
    /\ TableHas(bone.translate_table, Walk1)
    /\ TableAt(bone.translate_table, Walk1) # -1
    /\ TableHas(bone.translate_table, Walk2)
    /\ TableAt(bone.translate_table, Walk2) # -1
    /\ TableHas(bone.translate_table, Walk3)
Missing3 == Reaches3 /\ TableAt(bone.translate_table, Walk3) = -1

\* C9: for a bone reference other than -1, a -1 read at the first, second or
\* third lookup makes absolute_bone_index return 0x0FFF, without an error,
\* never -1, and with no lookup after the one that read -1.
C9_MissingEntryYieldsSentinel ==
    (resolved.called /\ bone.bone_index # -1) =>
        /\ (Missing1 \/ Missing2 \/ Missing3) =>
              resolved.exc = NoExc /\ resolved.ret = 4095 /\ resolved.ret # -1
        /\ Missing1 => resolved.lookups = <<Walk1>>
        /\ Missing2 => resolved.lookups = <<Walk1, Walk2>>
        /\ Missing3 => resolved.lookups = <<Walk1, Walk2, Walk3>>

\* C10: absolute_bone_index returns bone_count for the reference -1 without
\* reading the table, and otherwise, when the first two lookups read no -1,
\* returns table[table[table[n1] + n2] + n3], n1 being the most significant
\* nibble.
C10_ResolvesThroughThreeNibbles ==
    resolved.called =>
        /\ bone.bone_index = -1 =>
              /\ resolved.exc = NoExc
              /\ resolved.ret = bone.bone_count
              /\ resolved.lookups = <<>>
        /\ (bone.bone_index # -1 /\ Reaches3) =>
              /\ resolved.exc = NoExc
              /\ resolved.ret = TableAt(bone.translate_table, Walk3)

\* C10 witness: the reference 0x101 resolved through three lookups at three
\* different table indices.
C10_Witness ==
    /\ resolved.called
    /\ bone.bone_index = 257
    /\ Reaches3
    /\ Cardinality({Walk1, Walk2, Walk3}) = 3
    /\ resolved.ret = TableAt(bone.translate_table, Walk3)
    /\ resolved.ret >= 0

\* the positions of the terminator records in mot.records
TerminatorsDecoded ==
    {j \in 1 .. Len(mot.records) : mot.records[j].record_type = -1}
\* MOT_Record.__init__ has read a slot's header and is decoding it, or has
\* returned it to the record loop
SlotDecoded ==
    pc \in {"rec_kind", "parse_values", "gen_constant", "gen_stepped",
            "gen_quantized", "gen_first", "gen_segment", "gen_tail", "mot_append"}

\* C11: a record of kind -1 is returned with only its 8 header bytes read, no
\* keyframes and no frames; and once a terminator is in mot.records it is the
\* last record there and no later slot is decoded, whatever records_count says.
C11_TerminatorEndsStream ==
    /\ (RecordReturned /\ rec.record_type = -1) =>
          /\ cursor = rec.offset + 8
          /\ rec.values = <<>>
          /\ rec.frames = <<>>
    /\ TerminatorsDecoded # {} =>
          /\ TerminatorsDecoded = {Len(mot.records)}
          /\ ~SlotDecoded

\* the slot of the record the loop is at, and where its 12 bytes start
CurrentSlot == file.slots[i + 1]
CurrentSlotStart == file.records_offset + 12 * i
\* the pc values at which the payload of a record of kind 1..8 has been parsed
PayloadParsed == pc \in {"gen_stepped", "gen_quantized", "gen_first", "gen_segment", "gen_tail"}

\* C12: record i's header is read at records_offset + 12*i and holds slot i's
\* fields; for a kind other than -1 and 0 the cursor is put at that position
\* plus the slot's stored offset and the keyframes parsed are that slot's; a
\* kind 0 record takes its constant from the 4 bytes behind the 8 header bytes
\* without seeking.
C12_RecordsReadAtTheirOffsets ==
    /\ pc = "rec_header" => cursor = CurrentSlotStart
    /\ pc = "rec_kind" =>
          /\ rec.offset = CurrentSlotStart
          /\ cursor = CurrentSlotStart + 8
          /\ rec.bone_index = CurrentSlot.bone_index
          /\ rec.record_type = CurrentSlot.record_type
          /\ rec.value_count = CurrentSlot.value_count
    /\ pc = "parse_values" =>
          /\ rec.record_type \notin {-1, 0}
          /\ rec.values_offset = CurrentSlotStart + CurrentSlot.rel_offset
          /\ cursor = CurrentSlotStart + CurrentSlot.rel_offset
    /\ PayloadParsed =>
          /\ rec.record_type \in 1 .. 8
          /\ rec.values = CurrentSlot.payload.values
          /\ rec.values_offset = CurrentSlotStart + CurrentSlot.rel_offset
    /\ pc = "gen_constant" =>
          /\ rec.record_type = 0
          /\ rec.p = CurrentSlot.const_p
          /\ cursor = CurrentSlotStart + 12
          /\ rec.values_offset = 0

\* C12 witness: the second record's payload has been parsed at its own offset
\* after the first record's payload read left the cursor behind the record table,
\* away from the second slot.
C12_Witness ==
    /\ PayloadParsed
    /\ i = 1
    /\ Len(rec.values) >= 1
    /\ mot.records[1].record_type \in 1 .. 8
    /\ Len(mot.records[1].values) >= 1
    /\ mot.records[1].values_offset
          + PayloadBytes(mot.records[1].record_type, mot.records[1].value_count)
          > CurrentSlotStart
    /\ rec.values_offset = CurrentSlotStart + CurrentSlot.rel_offset
    /\ rec.values_offset # mot.records[1].values_offset

\* the condition of the frame-generation loop the run is in, for a record r
\* (mot.py:131, 157, 182, 206 and, for the Hermite kinds, 239, 248, 254 and
\* their copies)
LoopRuns(r) ==
    CASE pc \in {"gen_constant", "gen_stepped", "gen_quantized", "gen_tail"} ->
             r.frame_index < mot.frame_count
      [] pc = "gen_first" ->
             Len(r.values) > 0 /\ r.frame_index <= r.values[1].index
      [] pc = "gen_segment" ->
             r.value_index < Len(r.values) /\ SegmentRuns(r, r.value_index + 1)
      [] OTHER -> FALSE
\* r after n more turns of the loop: a turn appends a frame and adds 1 to the
\* frame cursor, and the loop conditions read only the cursor
AfterTurns(r, n) == [r EXCEPT !.frame_index = @ + n]

\* C13: whenever a record of kind 0..8 is in one of its frame-generation loops,
\* the loop's condition fails after finitely many further turns (at most
\* FrameCap, which exceeds every index and frame_count of the inputs), so that
\* the loop is left.
C13_SamplingTerminates ==
    rec.record_type \in 0 .. 8 =>
        \E n \in 0 .. FrameCap : ~LoopRuns(AfterTurns(rec, n))

\* the same statement with the relative-index kind left out
C13_OtherKindsTerminate ==
    rec.record_type \in (0 .. 8) \ {7} =>
        \E n \in 0 .. FrameCap : ~LoopRuns(AfterTurns(rec, n))

RECURSIVE HighestIndex(_, _)
\* the largest index among the first n control points
HighestIndex(values, n) ==
    IF n = 1 THEN values[1].index
    ELSE LET h == HighestIndex(values, n - 1)
         IN  IF values[n].index > h THEN values[n].index ELSE h

\* the run is at the segment loop of control point value_index (0-based)
AtSegment ==
    /\ pc = "gen_segment"
    /\ rec.record_type \in AbsoluteHermiteKinds
    /\ rec.value_index < Len(rec.values)

\* C14: in kinds 4, 5, 6, 8 no ZeroDivisionError is raised; whenever the body
\* of a segment loop is about to run, the frame cursor is greater than the index
\* of every earlier control point and at most the current point's index, so the
\* two indices t divides by differ; a segment whose point does not lie after
\* the point before it runs no turn, and the segment loops end with one frame
\* per position up to the highest index.
C14_NoZeroDenominator ==
    /\ rec.record_type \in AbsoluteHermiteKinds => exc # "ZeroDivisionError"
    /\ (AtSegment /\ SegmentRuns(rec, rec.value_index + 1)) =>
          /\ \A k \in 1 .. rec.value_index : rec.values[k].index < rec.frame_index
          /\ rec.frame_index <= rec.values[rec.value_index + 1].index
          /\ SegmentT(rec, rec.value_index + 1)[2] # 0
    /\ (AtSegment /\ rec.values[rec.value_index + 1].index
                        <= rec.values[rec.value_index].index) =>
          ~SegmentRuns(rec, rec.value_index + 1)
    /\ (pc = "gen_tail" /\ rec.record_type \in AbsoluteHermiteKinds) =>
          Len(rec.frames) = HighestIndex(rec.values, Len(rec.values)) + 1

\* C14 witness: the segment loops of an absolute-index record whose two control
\* points share an index >= 1 are over, with no exception.
C14_Witness ==
    /\ pc = "gen_tail"
    /\ rec.record_type \in AbsoluteHermiteKinds
    /\ Len(rec.values) = 2
    /\ rec.values[1].index = rec.values[2].index
    /\ rec.values[1].index >= 1
    /\ Len(rec.frames) = rec.values[1].index + 1
    /\ exc = NoExc

====
